---- MODULE Spec2Model ----
(***************************************************************************)
(* Balance and settlement engine of share-expenses.                        *)
(*                                                                         *)
(* lib/calculations: calculateSplits, calculateUserBalances,               *)
(* calculateSettlements; and the two settlement loops written inline in    *)
(* ExpenseList.tsx and SummaryDashboard.tsx.                               *)
(*                                                                         *)
(* Money is a JavaScript number.  The model computes with exact decimal    *)
(* arithmetic on a grid: one model unit is 1/60 of 0.001, so that a        *)
(* division of an amount (a multiple of 0.001) by 1..6 participants is     *)
(* exact.  The one non-finite number the engine produces, NaN (undefined   *)
(* plus a number), is a value of its own with JavaScript's rules: it       *)
(* absorbs + and -, and every comparison with it is false.                 *)
(***************************************************************************)
EXTENDS Integers, Sequences, FiniteSets, TLC

\* ------------------------------------------------------------------ units
\* model units per 0.001 of currency (lcm of 1..6)
Milli == 2 * 2 * 3 * 5

\* n whole currency units
Baht(n) == n * 1000 * Milli

\* the tolerance 0.01
EPS == 10 * Milli

\* the result of `undefined + number`
NaN == -2000000000

\* ----------------------------------------------------------------- bounds
\* largest roster of the aggregation runs
MaxUsers == 3

\* longest expense list of the aggregation runs
MaxExpenses == 2

\* number of keys of a balance mapping handed to a planner directly
MaxKeys == 5

\* latest reading of Date.now() of the App runs; the first one is 3
MaxClock == 4

\* longest expense list of the runs that fill the form field by field
MaxFormExpenses == 1

\* every id that can appear; a roster is 1..n, an id above n is unknown to it
Ids == 1..MaxUsers

Rosters == {1..n : n \in 2..MaxUsers}

Statuses == {"pending", "settled"}

Amounts == {Baht(150), Baht(300), Baht(1000)}

\* the values of a balance mapping handed to a planner directly: multiples
\* of 0.005 around the tolerance, two sizes well above it (0.06 and 0.1,
\* which a match can leave more than the tolerance of), and NaN
BalanceValues ==
    {NaN} \cup {v * 5 * Milli : v \in {-20, -12, -5, -3, -2, -1, 0, 1, 2, 3, 5, 12, 20}}

\* --------------------------------------------------- JavaScript arithmetic
IsNaN(x) == x = NaN

Plus(a, b) == IF IsNaN(a) \/ IsNaN(b) THEN NaN ELSE a + b

Minus(a, b) == IF IsNaN(a) \/ IsNaN(b) THEN NaN ELSE a - b

Gt(a, b) == ~IsNaN(a) /\ ~IsNaN(b) /\ a > b

\* a comparison that takes NaN for the number that stands for it
LtOfNumbers(a, b) == a < b

Lt(a, b) == ~IsNaN(a) /\ ~IsNaN(b) /\ a < b

\* Math.max in the place of Math.min
MathMax(a, b) == IF IsNaN(a) \/ IsNaN(b) THEN NaN ELSE IF a > b THEN a ELSE b

MathMin(a, b) == IF IsNaN(a) \/ IsNaN(b) THEN NaN ELSE IF a < b THEN a ELSE b

MathAbs(a) == IF IsNaN(a) THEN NaN ELSE IF a < 0 THEN -a ELSE a

\* ------------------------------------------------------------ the inputs
\* A mapping with no keys: `{}`, and an absent customSplits, which
\* calculateSplits reads as `{}`.
EmptyMap == [k \in {} |-> 0]

\* The expenses that can be recorded against roster `users`.  What
\* ExpenseForm stores: an equal split among the whole roster, paid by a
\* roster member (handleSubmit sets no status: it is undefined until the
\* list is loaded from storage again).  What an imported file or an older store can also hold:
\* an equal split with an empty participant list, one whose payer is not a
\* participant, one naming ids the roster does not know (id MaxUsers is
\* unknown to a smaller roster), and custom splits: all on id 1 (the others
\* have no entry), halves on ids 1 and 2 while only id 1 participates, all
\* but 0.005 on id 1, and no mapping at all.
ExpensePool(users) ==
    {[amount |-> a, paidBy |-> p, participants |-> users, splitType |-> "equal",
      customSplits |-> EmptyMap, status |-> st] :
        a \in Amounts, p \in {1, 2}, st \in Statuses \cup {"undefined"}}
    \cup
    {[amount |-> Baht(300), paidBy |-> x[1], participants |-> x[2],
      splitType |-> "equal", customSplits |-> EmptyMap, status |-> st] :
        x \in {<<1, {}>>, <<2, {1}>>, <<MaxUsers, Ids>>}, st \in Statuses}
    \cup
    {[amount |-> Baht(300), paidBy |-> x[1], participants |-> x[2],
      splitType |-> "custom", customSplits |-> x[3], status |-> "pending"] :
        x \in {<<2, users, [k \in {1} |-> Baht(300)]>>,
               <<1, {1}, [k \in {1, 2} |-> Baht(150)]>>,
               <<2, users, [k \in {1} |-> Baht(300) - 5 * Milli]>>,
               <<1, users, EmptyMap>>}}

RECURSIVE SeqsUpTo(_, _)
SeqsUpTo(S, n) ==
    IF n = 0 THEN {<<>>}
    ELSE LET shorter == SeqsUpTo(S, n - 1)
         IN  shorter \cup {Append(s, x) : s \in {t \in shorter : Len(t) = n - 1}, x \in S}

\* ------------------------------------------------------- lib/calculations
\* calculateSplits with the equal share rounded down to whole currency units
calculateSplitsRounded(expense) ==
    IF expense.splitType = "equal"
    THEN LET splitAmount ==
                 IF Cardinality(expense.participants) = 0 THEN 0
                 ELSE ((expense.amount \div Cardinality(expense.participants))
                          \div Baht(1)) * Baht(1)
         IN  [userId \in expense.participants |-> splitAmount]
    ELSE expense.customSplits

\* calculateSplits: the share of each key of the returned mapping
calculateSplits(expense) ==
    IF expense.splitType = "equal"
    THEN LET splitAmount ==
                 IF Cardinality(expense.participants) = 0 THEN 0
                 ELSE expense.amount \div Cardinality(expense.participants)
         IN  [userId \in expense.participants |-> splitAmount]
    ELSE expense.customSplits

\* `balances[k]` read for an arithmetic update: undefined makes it NaN
Read(balances, k) == IF k \in DOMAIN balances THEN balances[k] ELSE NaN

\* a round that assigns the amount to the payer's balance
ApplyExpenseAssigning(balances, expense) ==
    LET splits == calculateSplits(expense)
        keys == DOMAIN balances \cup {expense.paidBy} \cup DOMAIN splits
        credited(k) == IF k = expense.paidBy
                       THEN expense.amount
                       ELSE Read(balances, k)
    IN  [k \in keys |-> IF k \in DOMAIN splits
                        THEN Minus(credited(k), splits[k])
                        ELSE credited(k)]

\* one round of the forEach of calculateUserBalances
ApplyExpense(balances, expense) ==
    LET splits == calculateSplits(expense)
        keys == DOMAIN balances \cup {expense.paidBy} \cup DOMAIN splits
        credited(k) == IF k = expense.paidBy
                       THEN Plus(Read(balances, k), expense.amount)
                       ELSE Read(balances, k)
    IN  [k \in keys |-> IF k \in DOMAIN splits
                        THEN Minus(credited(k), splits[k])
                        ELSE credited(k)]

\* the filter comparing with the wrong status
IsSettled(expense) == expense.status = "settled"

\* expense.status === 'pending'
IsPending(expense) == expense.status = "pending"

\* the expense list left unfiltered
allExpenses(expenses) == expenses

pendingExpenses(expenses) == SelectSeq(expenses, IsPending)

RECURSIVE FoldExpenses(_, _)
FoldExpenses(balances, expenses) ==
    IF expenses = <<>> THEN balances
    ELSE FoldExpenses(ApplyExpense(balances, Head(expenses)), Tail(expenses))

\* the fold begun on a mapping without the roster's entries
calculateUserBalancesUninitialised(expenses, users) ==
    FoldExpenses(EmptyMap, pendingExpenses(expenses))

calculateUserBalances(expenses, users) ==
    FoldExpenses([id \in users |-> 0], pendingExpenses(expenses))

\* --------------------------------------------------------------- sorting
\* Object.entries: the keys are integer-like strings, enumerated ascending
RECURSIVE EntriesOf(_, _)
EntriesOf(balances, keys) ==
    IF keys = {} THEN <<>>
    ELSE LET k == CHOOSE x \in keys : \A y \in keys : x <= y
         IN  <<[id |-> k, amount |-> balances[k]]>> \o EntriesOf(balances, keys \ {k})

ObjectEntries(balances) == EntriesOf(balances, DOMAIN balances)

\* Array.prototype.sort is stable: an entry goes behind every entry that
\* the comparator does not put after it.  The comparators of the planners
\* order by amount: sign 1 is (a, b) => b - a (largest first), sign -1 is
\* (a, b) => a - b (smallest first).
RECURSIVE InsertSorted(_, _, _)
InsertSorted(sorted, e, sign) ==
    IF sorted = <<>> THEN <<e>>
    ELSE IF sign * e.amount > sign * Head(sorted).amount THEN <<e>> \o sorted
         ELSE <<Head(sorted)>> \o InsertSorted(Tail(sorted), e, sign)

\* the entries left in the order Object.entries gave them
Unsorted(seq, sign) == seq

RECURSIVE StableSort(_, _)
StableSort(seq, sign) ==
    IF seq = <<>> THEN <<>>
    ELSE InsertSorted(StableSort(SubSeq(seq, 1, Len(seq) - 1), sign),
                      seq[Len(seq)], sign)

LargestFirst == 1

SmallestFirst == -1

\* a debtor pushed with its balance as it is
Unnegated(entry) == entry

Negated(entry) == [id |-> entry.id, amount |-> -entry.amount]

\* a Settlement with payer and payee exchanged
SettlementReversed(debtor, creditor, amount) ==
    [from |-> creditor.id, to |-> debtor.id, amount |-> amount]

\* a Settlement: the debtor pays the creditor
Settlement(debtor, creditor, amount) ==
    [from |-> debtor.id, to |-> creditor.id, amount |-> amount]

\* ----------------------------------------------------- calculateSettlements
libIsCreditor(entry) == Gt(entry.amount, EPS)

libIsDebtor(entry) == Lt(entry.amount, -EPS)

libCreditors(balances) ==
    StableSort(SelectSeq(ObjectEntries(balances), libIsCreditor), LargestFirst)

\* a debtor is pushed with amount: -balance
libDebtors(balances) ==
    LET owed == SelectSeq(ObjectEntries(balances), libIsDebtor)
    IN  StableSort([i \in 1..Len(owed) |-> Negated(owed[i])], LargestFirst)

libEmits(settleAmount) == settleAmount > EPS

\* a cursor that moves on only past an overdrawn entry
libAdvancesOverdrawn(remaining) == remaining < 0

libAdvances(remaining) == remaining < EPS

\* the while loop of calculateSettlements, run to its end
RECURSIVE libLoop(_, _, _, _, _)
libLoop(cs, ds, ci, di, out) ==
    IF ~(ci < Len(cs) /\ di < Len(ds)) THEN out
    ELSE LET creditor == cs[ci + 1]
             debtor == ds[di + 1]
             settleAmount == MathMin(creditor.amount, debtor.amount)
         IN  libLoop([cs EXCEPT ![ci + 1].amount = @ - settleAmount],
                     [ds EXCEPT ![di + 1].amount = @ - settleAmount],
                     IF libAdvances(creditor.amount - settleAmount) THEN ci + 1 ELSE ci,
                     IF libAdvances(debtor.amount - settleAmount) THEN di + 1 ELSE di,
                     IF libEmits(settleAmount)
                     THEN Append(out, Settlement(debtor, creditor, settleAmount))
                     ELSE out)

\* what calculateSettlements returns for a balance mapping
calculateSettlements(mapping) ==
    libLoop(libCreditors(mapping), libDebtors(mapping), 0, 0, <<>>)

\* ----------------------------------- ExpenseList.tsx settlementSuggestions
listIsCreditor(entry) == Gt(entry.amount, EPS)

listIsDebtor(entry) == Lt(entry.amount, -EPS)

listEmits(settlementAmount) == settlementAmount > EPS

\* ------------------------------ SummaryDashboard.tsx settlementSuggestions
dashIsCreditor(entry) == Gt(entry.amount, 0)

dashIsDebtor(entry) == Lt(entry.amount, 0)

dashEmits(settlementAmount) == settlementAmount > 0

\* ------------------------------------------------------------- the state
VARIABLES
    users,          \* the roster: the ids of `users`
    expenses,       \* the expense list handed to the engine
    balances,       \* the mapping calculateUserBalances returned
    pc,             \* "input", "balances", "loop", "done"
    planner,        \* which settlement loop runs: "lib", "list", "dash"
    creditors,      \* the planner's sorted creditor entries
    debtors,        \* the planner's sorted debtor entries
    creditorIndex,
    debtorIndex,
    settlements,    \* the settlements pushed so far
    run,            \* 1 in the first invocation, 2 in the repeated one
    first           \* what the first invocation returned

\* the state of the App component and of the browser around it
VARIABLES
    appUsers,       \* App's `users`: the roster, a list of User
    appExpenses,    \* App's `expenses`
    storedUsers,    \* localStorage `share-expenses-users`: <<>> or <<list>>
    storedExpenses, \* localStorage `share-expenses-data`: <<>> or <<list>>
    clock,          \* the last reading of Date.now()
    editingExpense, \* App's `editingExpense`: <<>> (null) or <<expense>>
    dateRange,      \* the date range ExpenseList displays
    form            \* the fields of ExpenseForm: <<>> (not mounted) or <<fields>>

appVars == <<appUsers, appExpenses, storedUsers, storedExpenses, clock,
             editingExpense, dateRange, form>>

vars == <<users, expenses, balances, pc, planner, creditors, debtors,
          creditorIndex, debtorIndex, settlements, run, first, appVars>>

\* ------------------------------------------------------------ App: data
DEFAULT_USERS == <<[id |-> 1, name |-> "BEAT"], [id |-> 2, name |-> "NART"]>>

\* the first reading of the clock: later than the ids of the default users
FirstTick == Len(DEFAULT_USERS) + 1

\* the days a date range can begin and end on (a day per clock reading)
Days == FirstTick..MaxClock

\* the range of this week: every day of the runs
ThisWeek == [from |-> FirstTick, to |-> MaxClock]

\* the ids of a list of users or of expenses, as a list and as a set
IdList(list) == [i \in DOMAIN list |-> list[i].id]

IdsOf(list) == {list[i].id : i \in DOMAIN list}

\* the form as useState leaves it for a new expense
BlankForm ==
    [description |-> "", amount |-> "", paidBy |-> 0, splitType |-> "equal",
     customSplits |-> EmptyMap]

\* the engine's callers are not mounted
AppIdle ==
    /\ appUsers = DEFAULT_USERS
    /\ appExpenses = <<>>
    /\ storedUsers = <<>>
    /\ storedExpenses = <<>>
    /\ clock = FirstTick
    /\ editingExpense = <<>>
    /\ dateRange = ThisWeek
    /\ form = <<>>

NoResult == [balances |-> EmptyMap, settlements |-> <<>>]

InitLocals ==
    /\ planner = "none"
    /\ creditors = <<>>
    /\ debtors = <<>>
    /\ creditorIndex = 0
    /\ debtorIndex = 0
    /\ settlements = <<>>
    /\ run = 1
    /\ first = NoResult

\* the engine is called with an expense list and a roster
Init ==
    /\ users \in Rosters
    /\ expenses \in SeqsUpTo(ExpensePool(users), MaxExpenses)
    /\ balances = EmptyMap
    /\ pc = "input"
    /\ InitLocals
    /\ AppIdle

\* const balances = calculateUserBalances(expenses, users)
Aggregate ==
    /\ pc = "input"
    /\ balances' = calculateUserBalances(expenses, users)
    /\ pc' = "balances"
    /\ UNCHANGED <<appVars, users, expenses, planner, creditors, debtors, creditorIndex,
                   debtorIndex, settlements, run, first>>

\* a planner whose `settlements` array outlives the call
StartsKeepingSettlements(name) ==
    /\ pc = "balances"
    /\ run = 1 \/ planner = name
    /\ planner' = name
    /\ creditorIndex' = 0
    /\ debtorIndex' = 0
    /\ settlements' = settlements
    /\ pc' = "loop"
    /\ UNCHANGED <<appVars, users, expenses, balances, run, first>>

\* A planner starts: its settlements list is empty and both cursors are 0.
\* (The repeated invocation runs the planner of the first one.)
Starts(name) ==
    /\ pc = "balances"
    /\ run = 1 \/ planner = name
    /\ planner' = name
    /\ creditorIndex' = 0
    /\ debtorIndex' = 0
    /\ settlements' = <<>>
    /\ pc' = "loop"
    /\ UNCHANGED <<appVars, users, expenses, balances, run, first>>

InRange ==
    /\ creditorIndex < Len(creditors)
    /\ debtorIndex < Len(debtors)

Returns(name) ==
    /\ pc = "loop"
    /\ planner = name
    /\ ~InRange
    /\ pc' = "done"
    /\ UNCHANGED <<appVars, users, expenses, balances, planner, creditors, debtors,
                   creditorIndex, debtorIndex, settlements, run, first>>

\* calculateSettlements, up to the loop: partition and sort
calculateSettlementsBegin ==
    /\ Starts("lib")
    /\ creditors' = libCreditors(balances)
    /\ debtors' = libDebtors(balances)

\* an iteration that subtracts from copies of the two entries and tests the
\* entries of the arrays
calculateSettlementsLoopOnCopies ==
    /\ pc = "loop"
    /\ planner = "lib"
    /\ InRange
    /\ LET creditor == creditors[creditorIndex + 1]
           debtor == debtors[debtorIndex + 1]
           settleAmount == MathMin(creditor.amount, debtor.amount)
       IN  /\ settlements' =
                  IF libEmits(settleAmount)
                  THEN Append(settlements, Settlement(debtor, creditor, settleAmount))
                  ELSE settlements
           /\ creditorIndex' = IF libAdvances(creditor.amount)
                               THEN creditorIndex + 1 ELSE creditorIndex
           /\ debtorIndex' = IF libAdvances(debtor.amount)
                             THEN debtorIndex + 1 ELSE debtorIndex
    /\ UNCHANGED <<appVars, users, expenses, balances, pc, planner, run, first, creditors,
                   debtors>>

\* one iteration of the while loop of calculateSettlements
calculateSettlementsLoop ==
    /\ pc = "loop"
    /\ planner = "lib"
    /\ InRange
    /\ LET creditor == creditors[creditorIndex + 1]
           debtor == debtors[debtorIndex + 1]
           settleAmount == MathMin(creditor.amount, debtor.amount)
       IN  /\ settlements' =
                  IF libEmits(settleAmount)
                  THEN Append(settlements, Settlement(debtor, creditor, settleAmount))
                  ELSE settlements
           /\ creditors' = [creditors EXCEPT ![creditorIndex + 1].amount = @ - settleAmount]
           /\ debtors' = [debtors EXCEPT ![debtorIndex + 1].amount = @ - settleAmount]
           /\ creditorIndex' = IF libAdvances(creditor.amount - settleAmount)
                               THEN creditorIndex + 1 ELSE creditorIndex
           /\ debtorIndex' = IF libAdvances(debtor.amount - settleAmount)
                             THEN debtorIndex + 1 ELSE debtorIndex
    /\ UNCHANGED <<appVars, users, expenses, balances, pc, planner, run, first>>

calculateSettlementsReturn == Returns("lib")

\* ExpenseList: the filtered and sorted entries of balancesCopy
ExpenseListBegin ==
    /\ Starts("list")
    /\ creditors' = StableSort(SelectSeq(ObjectEntries(balances), listIsCreditor),
                               LargestFirst)
    /\ debtors' = StableSort(SelectSeq(ObjectEntries(balances), listIsDebtor),
                             SmallestFirst)

\* one iteration of the while loop of ExpenseList; its else branch breaks
ExpenseListLoop ==
    /\ pc = "loop"
    /\ planner = "list"
    /\ InRange
    /\ LET creditor == creditors[creditorIndex + 1]
           debtor == debtors[debtorIndex + 1]
           settlementAmount == MathMin(creditor.amount, MathAbs(debtor.amount))
       IN  IF listEmits(settlementAmount)
           THEN /\ settlements' = Append(settlements,
                        Settlement(debtor, creditor, settlementAmount))
                /\ creditors' = [creditors EXCEPT
                                    ![creditorIndex + 1].amount = @ - settlementAmount]
                /\ debtors' = [debtors EXCEPT
                                  ![debtorIndex + 1].amount = @ + settlementAmount]
                /\ creditorIndex' = IF creditor.amount - settlementAmount < EPS
                                    THEN creditorIndex + 1 ELSE creditorIndex
                /\ debtorIndex' = IF debtor.amount + settlementAmount > -EPS
                                  THEN debtorIndex + 1 ELSE debtorIndex
                /\ pc' = pc
           ELSE /\ pc' = "done"
                /\ UNCHANGED <<settlements, creditors, debtors, creditorIndex,
                               debtorIndex>>
    /\ UNCHANGED <<appVars, users, expenses, balances, planner, run, first>>

ExpenseListReturn == Returns("list")

\* SummaryDashboard: the filtered and sorted entries of balancesCopy
SummaryDashboardBegin ==
    /\ Starts("dash")
    /\ creditors' = StableSort(SelectSeq(ObjectEntries(balances), dashIsCreditor),
                               LargestFirst)
    /\ debtors' = StableSort(SelectSeq(ObjectEntries(balances), dashIsDebtor),
                             SmallestFirst)

\* one iteration of the while loop of SummaryDashboard; with no else branch,
\* an iteration whose settlementAmount is not positive changes nothing
SummaryDashboardLoop ==
    /\ pc = "loop"
    /\ planner = "dash"
    /\ InRange
    /\ LET creditor == creditors[creditorIndex + 1]
           debtor == debtors[debtorIndex + 1]
           settlementAmount == MathMin(creditor.amount, MathAbs(debtor.amount))
       IN  IF dashEmits(settlementAmount)
           THEN /\ settlements' = Append(settlements,
                        Settlement(debtor, creditor, settlementAmount))
                /\ creditors' = [creditors EXCEPT
                                    ![creditorIndex + 1].amount = @ - settlementAmount]
                /\ debtors' = [debtors EXCEPT
                                  ![debtorIndex + 1].amount = @ + settlementAmount]
                /\ creditorIndex' = IF creditor.amount - settlementAmount = 0
                                    THEN creditorIndex + 1 ELSE creditorIndex
                /\ debtorIndex' = IF debtor.amount + settlementAmount = 0
                                  THEN debtorIndex + 1 ELSE debtorIndex
           ELSE UNCHANGED <<settlements, creditors, debtors, creditorIndex,
                            debtorIndex>>
    /\ UNCHANGED <<appVars, users, expenses, balances, pc, planner, run, first>>

SummaryDashboardReturn == Returns("dash")

Plan ==
    \/ calculateSettlementsBegin
    \/ calculateSettlementsLoop
    \/ calculateSettlementsReturn
    \/ ExpenseListBegin
    \/ ExpenseListLoop
    \/ ExpenseListReturn
    \/ SummaryDashboardBegin
    \/ SummaryDashboardLoop
    \/ SummaryDashboardReturn

Next == Aggregate \/ Plan

Spec == Init /\ [][Next]_vars

\* The balance mappings of n keys whose values rise (sign 1) or fall
\* (sign -1) with the key.  A planner reads a mapping through Object.entries
\* and a sort by amount, so every mapping is one of these with its keys
\* renamed.
RECURSIVE Monotone(_, _)
Monotone(n, sign) ==
    IF n = 0 THEN {<<>>}
    ELSE UNION {{Append(b, v) : v \in {x \in BalanceValues :
                                          n = 1 \/ sign * x >= sign * b[n - 1]}} :
                b \in Monotone(n - 1, sign)}

\* A planner is called with a balance mapping of its caller's
InitBalances ==
    /\ users = 1..MaxKeys
    /\ expenses = <<>>
    /\ balances \in Monotone(MaxKeys, 1) \cup Monotone(MaxKeys, -1)
    /\ pc = "balances"
    /\ InitLocals
    /\ AppIdle

SpecBalances == InitBalances /\ [][Plan]_vars

\* The engine is invoked again: on the same expenses and roster, or the
\* planner alone on the balance mapping it was given.
Reinvoke ==
    /\ pc = "done"
    /\ run = 1
    /\ first' = [balances |-> balances, settlements |-> settlements]
    /\ run' = 2
    /\ pc' \in {"input", "balances"}
    /\ UNCHANGED <<appVars, users, expenses, balances, planner, creditors, debtors,
                   creditorIndex, debtorIndex, settlements>>

NextTwice == Aggregate \/ Plan \/ Reinvoke

SpecTwice == Init /\ [][NextTwice]_vars

\* =================================================================== App
\* The App component: the roster and the expense list it holds, the two
\* localStorage items it keeps of them, and the handlers its children call.
\* A handler is taken with the render that follows it: the state setters it
\* called are applied and the save effects of App.tsx run.
engineVars == <<users, expenses, balances, pc, planner, creditors, debtors,
                creditorIndex, debtorIndex, settlements, run, first>>

\* expense.status || 'pending'
StatusOrPending(expense) ==
    [expense EXCEPT !.status = IF @ = "undefined" THEN "pending" ELSE @]

\* localStorage.getItem('share-expenses-data') parsed and migrated
loadExpensesFromStorage(item) ==
    IF item = <<>> THEN <<>>
    ELSE LET parsedExpenses == item[1]
         IN  IF Len(parsedExpenses) > 0
             THEN [i \in DOMAIN parsedExpenses |-> StatusOrPending(parsedExpenses[i])]
             ELSE <<>>

\* localStorage.setItem('share-expenses-data', JSON.stringify(expenses))
saveExpensesToStorage(list) == <<list>>

loadUsersFromStorage(item) ==
    IF item = <<>> THEN DEFAULT_USERS
    ELSE LET parsedUsers == item[1]
         IN  IF Len(parsedUsers) >= 2 THEN parsedUsers ELSE DEFAULT_USERS

saveUsersToStorage(list) == <<list>>

\* The render after a handler: `expensesSet` and `usersSet` tell whether
\* setExpenses and setUsers were called.  The expenses are saved when the
\* list or the roster's length changed, and only if the list is not empty
\* or the roster has not two members; the users are saved when they changed.
Rendered(newExpenses, newUsers, expensesSet, usersSet) ==
    /\ appExpenses' = newExpenses
    /\ appUsers' = newUsers
    /\ storedExpenses' =
           IF /\ expensesSet \/ Len(newUsers) # Len(appUsers)
              /\ Len(newExpenses) > 0 \/ Len(newUsers) # 2
           THEN saveExpensesToStorage(newExpenses)
           ELSE storedExpenses
    /\ storedUsers' = IF usersSet THEN saveUsersToStorage(newUsers) ELSE storedUsers

\* what an earlier session of an older version of the program can have
\* left in the store: an expense of the default users saved without a status
OlderStores ==
    {<<>>,
     <<<<[id |-> FirstTick - 1, amount |-> Baht(300), paidBy |-> 1,
          participants |-> {1, 2}, splitType |-> "equal",
          customSplits |-> EmptyMap, status |-> "undefined",
          date |-> FirstTick]>>>>}

\* the page is loaded: useState's initial values, then the mount effect
\* and the save effects that follow it; what is in memory and in the store
\* after them
Mounted(oldExpenses, oldUsers) ==
    LET savedExpenses == loadExpensesFromStorage(oldExpenses)
        savedUsers == loadUsersFromStorage(oldUsers)
    IN  [expenses |-> savedExpenses,
         users |-> savedUsers,
         storedUsers |-> saveUsersToStorage(savedUsers),
         storedExpenses |->
             IF Len(savedExpenses) > 0 \/ Len(savedUsers) # 2
             THEN saveExpensesToStorage(savedExpenses)
             ELSE oldExpenses]

EngineIdle ==
    /\ users = {}
    /\ expenses = <<>>
    /\ balances = EmptyMap
    /\ pc = "app"
    /\ InitLocals

InitApp ==
    /\ EngineIdle
    /\ clock = FirstTick
    /\ \E store \in OlderStores :
         LET mounted == Mounted(store, <<>>)
         IN  /\ appExpenses = mounted.expenses
             /\ appUsers = mounted.users
             /\ storedUsers = mounted.storedUsers
             /\ storedExpenses = mounted.storedExpenses
    /\ editingExpense = <<>>
    /\ dateRange = ThisWeek
    /\ form = <<>>

\* the page is loaded again
Reload ==
    LET mounted == Mounted(storedExpenses, storedUsers)
    IN  /\ appExpenses' = mounted.expenses
        /\ appUsers' = mounted.users
        /\ storedUsers' = mounted.storedUsers
        /\ storedExpenses' = mounted.storedExpenses
        /\ editingExpense' = <<>>
        /\ dateRange' = ThisWeek
        /\ form' = <<>>
        /\ UNCHANGED <<clock, engineVars>>

\* time passes: the next reading of Date.now() is a later one
Tick ==
    /\ clock < MaxClock
    /\ clock' = clock + 1
    /\ UNCHANGED <<appUsers, appExpenses, storedUsers, storedExpenses,
                   editingExpense, dateRange, form, engineVars>>

\* ------------------------------------------------------- UserManagement
\* The tabs mount the content of the active tab only: the handlers of the
\* other tabs run while the form is not mounted.
\* handleAddUser: a blank name is refused
handleAddUser(name) ==
    /\ form = <<>>
    /\ Len(appUsers) < MaxUsers
    /\ name # ""
    /\ Rendered(appExpenses, Append(appUsers, [id |-> clock, name |-> name]),
                FALSE, TRUE)
    /\ UNCHANGED <<clock, editingExpense, dateRange, form, engineVars>>

\* handleUpdateUser: the name of every user with the id is replaced
handleUpdateUser(userId, name) ==
    LET update(user) == IF user.id = userId THEN [user EXCEPT !.name = name] ELSE user
    IN  /\ form = <<>>
        /\ name # ""
        /\ Rendered(appExpenses, [i \in DOMAIN appUsers |-> update(appUsers[i])],
                    FALSE, TRUE)
        /\ UNCHANGED <<clock, editingExpense, dateRange, form, engineVars>>

\* handleDeleteUser: refused while the roster has two members or fewer
handleDeleteUser(userId) ==
    LET kept(user) == user.id # userId
        refused == Len(appUsers) <= 2
    IN  /\ form = <<>>
        /\ Rendered(appExpenses,
                    IF refused THEN appUsers ELSE SelectSeq(appUsers, kept),
                    FALSE, ~refused)
        /\ UNCHANGED <<clock, editingExpense, dateRange, form, engineVars>>

\* ----------------------------------------------------- import and clear
ImportedExpense(id, status) ==
    [id |-> id, amount |-> Baht(300), paidBy |-> 1, participants |-> {1, 2},
     splitType |-> "equal", customSplits |-> EmptyMap, status |-> status,
     date |-> FirstTick]

\* the files handed to an import, all written before the clock's first
\* reading: one with a single user, and files of two or three users (twice
\* the same id among them) with no expense, an expense without a status,
\* and two expenses of one id
ImportFiles ==
    {[users |-> <<[id |-> 1, name |-> "BEAT"]>>,
      expenses |-> <<ImportedExpense(FirstTick - 1, "settled")>>]}
    \cup
    {[users |-> u, expenses |-> e] :
        u \in {DEFAULT_USERS,
               <<[id |-> FirstTick - 1, name |-> "TWIN"],
                 [id |-> FirstTick - 1, name |-> "TWIN"],
                 [id |-> 1, name |-> "BEAT"]>>},
        e \in {<<>>,
               <<ImportedExpense(FirstTick - 1, "undefined")>>,
               <<ImportedExpense(FirstTick - 1, "pending"),
                 ImportedExpense(FirstTick - 1, "settled")>>}}

\* handleImportData: a file of fewer than two users is refused
handleImportData(data) ==
    LET refused == Len(data.users) < 2
        validExpenses ==
            [i \in DOMAIN data.expenses |-> StatusOrPending(data.expenses[i])]
    IN  /\ form = <<>>
        /\ Rendered(IF refused THEN appExpenses ELSE validExpenses,
                    IF refused THEN appUsers ELSE data.users,
                    ~refused, ~refused)
        /\ UNCHANGED <<clock, editingExpense, dateRange, form, engineVars>>

\* handleClearData: both items are removed from the store after the
\* setters were called and before the effects run; setUsers(DEFAULT_USERS)
\* changes nothing, and saves nothing, when the roster is that very array
handleClearData ==
    /\ form = <<>>
    /\ appExpenses' = <<>>
    /\ appUsers' = DEFAULT_USERS
    /\ storedExpenses' = <<>>
    /\ storedUsers' \in
           IF appUsers = DEFAULT_USERS
           THEN {<<>>, saveUsersToStorage(DEFAULT_USERS)}
           ELSE {saveUsersToStorage(DEFAULT_USERS)}
    /\ UNCHANGED <<clock, editingExpense, dateRange, form, engineVars>>

\* ---------------------------------------------------------- ExpenseForm
\* what the amount field can hold, and parseFloat of it
AmountTexts == {"", "0", "100", "300"}

parseFloat(text) ==
    CASE text = "" -> NaN
      [] text = "0" -> 0
      [] text = "100" -> Baht(100)
      [] text = "300" -> Baht(300)

\* amount.toString() of an expense that is edited
toString(amount) ==
    CASE amount = Baht(100) -> "100"
      [] amount = Baht(300) -> "300"

\* what the description field can hold, and description.trim()
Descriptions == {"", " ", "lunch"}

trim(text) == IF text = " " THEN "" ELSE text

\* customSplits[userId] || 0
ShareOrZero(customSplits, userId) ==
    IF userId \in DOMAIN customSplits THEN customSplits[userId] ELSE 0

\* participants.reduce((sum, userId) => sum + (customSplits[userId] || 0), 0)
RECURSIVE splitTotal(_, _)
splitTotal(customSplits, participants) ==
    IF participants = <<>> THEN 0
    ELSE ShareOrZero(customSplits, Head(participants))
             + splitTotal(customSplits, Tail(participants))

\* the checks of handleSubmit that end it before onSubmit
Refused(f) ==
    \/ trim(f.description) = ""
    \/ f.amount = ""
    \/ f.paidBy = 0
    \/ IsNaN(parseFloat(f.amount))
    \/ parseFloat(f.amount) <= 0
    \/ /\ f.splitType = "custom"
       /\ splitTotal(f.customSplits, IdList(appUsers)) # parseFloat(f.amount)

\* expenseData of handleSubmit: it has no status; the engine reads the
\* participants as a set
expenseData(f, now) ==
    [amount |-> parseFloat(f.amount),
     paidBy |-> f.paidBy,
     participants |-> IdsOf(appUsers),
     splitType |-> f.splitType,
     customSplits |-> IF f.splitType = "custom" THEN f.customSplits ELSE EmptyMap,
     status |-> "undefined",
     date |-> IF editingExpense # <<>> THEN editingExpense[1].date ELSE now]

\* { ...expenseData, id }
WithId(data, id) ==
    [id |-> id, amount |-> data.amount, paidBy |-> data.paidBy,
     participants |-> data.participants, splitType |-> data.splitType,
     customSplits |-> data.customSplits, status |-> data.status,
     date |-> data.date]

\* addExpense: the id is the reading of the clock
addExpense(data, now) == Append(appExpenses, WithId(data, now))

\* updateExpense: every expense with the id of the edited one is replaced
updateExpense(updatedExpense) ==
    LET replace(expense) ==
            IF expense.id = editingExpense[1].id
            THEN WithId(updatedExpense, editingExpense[1].id)
            ELSE expense
    IN  [i \in DOMAIN appExpenses |-> replace(appExpenses[i])]

\* handleSubmit on the fields `f`, with the handler of App it calls
handleSubmit(f) ==
    LET data == expenseData(f, clock)
    IN  /\ IF Refused(f)
           THEN UNCHANGED <<appExpenses, appUsers, storedExpenses,
                            storedUsers, editingExpense>>
           ELSE /\ editingExpense' = <<>>
                /\ Rendered(IF editingExpense # <<>>
                            THEN updateExpense(data)
                            ELSE addExpense(data, clock),
                            appUsers, TRUE, FALSE)
        /\ UNCHANGED <<clock, dateRange, engineVars>>

\* the fields as useState initialises them from the expense that is edited
FormOf(editing) ==
    IF editing = <<>> THEN BlankForm
    ELSE [description |-> "lunch",
          amount |-> toString(editing[1].amount),
          paidBy |-> editing[1].paidBy,
          splitType |-> editing[1].splitType,
          customSplits |-> editing[1].customSplits]

\* parseFloat(amount) || 0
totalAmount(f) ==
    IF IsNaN(parseFloat(f.amount)) THEN 0 ELSE parseFloat(f.amount)

\* the effect of ExpenseForm on splitType, amount and users
InitializeSliders(f) ==
    IF f.splitType = "equal"
    THEN [f EXCEPT !.customSplits = EmptyMap]
    ELSE IF /\ f.amount # ""
            /\ Len(appUsers) = 2
            /\ totalAmount(f) > 0
            /\ DOMAIN f.customSplits = {}
         THEN LET equalSplit == totalAmount(f) \div 2
              IN  [f EXCEPT !.customSplits =
                       (appUsers[1].id :> equalSplit) @@ (appUsers[2].id :> equalSplit)]
         ELSE f

\* the add tab is chosen: the form is mounted
OpenForm ==
    /\ form = <<>>
    /\ form' = <<InitializeSliders(FormOf(editingExpense))>>
    /\ UNCHANGED <<appUsers, appExpenses, storedUsers, storedExpenses, clock,
                   editingExpense, dateRange, engineVars>>

\* another tab is chosen: the form is unmounted
CloseForm ==
    /\ form # <<>>
    /\ form' = <<>>
    /\ UNCHANGED <<appUsers, appExpenses, storedUsers, storedExpenses, clock,
                   editingExpense, dateRange, engineVars>>

\* a field of the mounted form is set, and the effect runs
SetField(f) ==
    /\ form # <<>>
    /\ form' = <<InitializeSliders(f)>>
    /\ UNCHANGED <<appUsers, appExpenses, storedUsers, storedExpenses, clock,
                   editingExpense, dateRange, engineVars>>

setDescription(text) == SetField([form[1] EXCEPT !.description = text])

setAmount(text) == SetField([form[1] EXCEPT !.amount = text])

setPaidBy(userId) == SetField([form[1] EXCEPT !.paidBy = userId])

setSplitType(type) == SetField([form[1] EXCEPT !.splitType = type])

\* the amounts the slider of the first user is dragged to
SliderStops == {0, Baht(100)}

\* handleSliderChange: only with a roster of two, and a positive amount
handleSliderChange(userId, userAmount) ==
    LET others == SelectSeq(appUsers, LAMBDA user : user.id # userId)
        remainingAmount == totalAmount(form[1]) - userAmount
    IN  /\ form # <<>>
        /\ form[1].splitType = "custom"
        /\ userAmount <= totalAmount(form[1])
        /\ Len(appUsers) = 2
        /\ others # <<>>
        /\ totalAmount(form[1]) > 0
        /\ form' = <<[form[1] EXCEPT !.customSplits =
                         (userId :> userAmount)
                             @@ (Head(others).id :> MathMax(0, remainingAmount))]>>
        /\ UNCHANGED <<appUsers, appExpenses, storedUsers, storedExpenses, clock,
                       editingExpense, dateRange, engineVars>>

\* the mounted form is submitted; addExpense and updateExpense go back to
\* the list tab, which unmounts it
SubmitForm ==
    /\ form # <<>>
    /\ editingExpense # <<>> \/ Len(appExpenses) < MaxFormExpenses
    /\ handleSubmit(form[1])
    /\ form' = IF Refused(form[1]) THEN form ELSE <<>>

\* a form is filled with `f` and submitted, and the tab is left
SubmitFilled(f) ==
    /\ form = <<>>
    /\ editingExpense # <<>> \/ Len(appExpenses) < MaxExpenses
    /\ handleSubmit(f)
    /\ form' = <<>>

\* the fields a form is filled with before it is submitted: an equal split
\* paid by a member of the roster, with or without a description
Fills ==
    {[description |-> d, amount |-> "300", paidBy |-> p, splitType |-> "equal",
      customSplits |-> EmptyMap] :
        d \in {"lunch", " "}, p \in IdsOf(appUsers)}

\* ---------------------------------------------------------- ExpenseList
isWithinInterval(date, range) == range.from <= date /\ date <= range.to

filterExpensesByDateRange(list, range) ==
    SelectSeq(list, LAMBDA expense : isWithinInterval(expense.date, range))

\* the expenses the list shows
filteredExpenses == filterExpensesByDateRange(appExpenses, dateRange)

\* setExpenses(prev => prev.map(...)) of updateExpenseStatus
updateExpenseStatus(prev, id, status) ==
    [i \in DOMAIN prev |->
        IF prev[i].id = id THEN [prev[i] EXCEPT !.status = status] ELSE prev[i]]

toggleStatus(expense) ==
    LET newStatus == IF expense.status = "settled" THEN "pending" ELSE "settled"
    IN  /\ form = <<>>
        /\ Rendered(updateExpenseStatus(appExpenses, expense.id, newStatus),
                    appUsers, TRUE, FALSE)
        /\ UNCHANGED <<clock, editingExpense, dateRange, form, engineVars>>

deleteExpense(id) ==
    /\ form = <<>>
    /\ Rendered(SelectSeq(appExpenses, LAMBDA expense : expense.id # id),
                appUsers, TRUE, FALSE)
    /\ UNCHANGED <<clock, editingExpense, dateRange, form, engineVars>>

handleEdit(expense) ==
    /\ form = <<>>
    /\ editingExpense' = <<expense>>
    /\ UNCHANGED <<appUsers, appExpenses, storedUsers, storedExpenses, clock,
                   dateRange, form, engineVars>>

handleCancelEdit ==
    /\ editingExpense # <<>>
    /\ editingExpense' = <<>>
    /\ form' = <<>>
    /\ UNCHANGED <<appUsers, appExpenses, storedUsers, storedExpenses, clock,
                   dateRange, engineVars>>

\* the updates of handleClearSettlements, applied one after the other
RECURSIVE SettleEach(_, _)
SettleEach(prev, ids) ==
    IF ids = <<>> THEN prev
    ELSE SettleEach(updateExpenseStatus(prev, Head(ids), "settled"), Tail(ids))

handleClearSettlements ==
    LET settlementExpenseIds == IdList(pendingExpenses(filteredExpenses))
    IN  /\ form = <<>>
        /\ Rendered(SettleEach(appExpenses, settlementExpenseIds), appUsers,
                    settlementExpenseIds # <<>>, FALSE)
        /\ UNCHANGED <<clock, editingExpense, dateRange, form, engineVars>>

handleDateRangeChange(newRange) ==
    /\ form = <<>>
    /\ newRange.from <= newRange.to
    /\ dateRange' = newRange
    /\ UNCHANGED <<appUsers, appExpenses, storedUsers, storedExpenses, clock,
                   editingExpense, form, engineVars>>

\* ------------------------------------------------------------- the runs
UserManagement ==
    \/ \E name \in {"NEW"} : handleAddUser(name)
    \/ \E userId \in IdsOf(appUsers), name \in {"RENAMED"} :
           handleUpdateUser(userId, name)
    \/ \E userId \in IdsOf(appUsers) : handleDeleteUser(userId)

ExportData ==
    \/ \E data \in ImportFiles : handleImportData(data)
    \/ handleClearData

ExpenseList ==
    \/ \E i \in DOMAIN filteredExpenses : toggleStatus(filteredExpenses[i])
    \/ \E i \in DOMAIN filteredExpenses : deleteExpense(filteredExpenses[i].id)
    \/ \E i \in DOMAIN filteredExpenses : handleEdit(filteredExpenses[i])
    \/ handleClearSettlements
    \/ \E from \in Days, to \in Days :
           handleDateRangeChange([from |-> from, to |-> to])

\* the roster and what refers to it: the handlers of the users tab and of
\* the export tab, expenses added by the form, and the page loaded again
NextUsers ==
    \/ Tick
    \/ Reload
    \/ UserManagement
    \/ ExportData
    \/ \E f \in Fills : SubmitFilled(f)

SpecUsers == InitApp /\ [][NextUsers]_vars

\* the expense list: the handlers of the list tab, expenses added and
\* edited by the form, users added, files imported, the page loaded again
NextExpenses ==
    \/ Tick
    \/ Reload
    \/ ExpenseList
    \/ handleCancelEdit
    \/ \E f \in Fills : SubmitFilled(f)
    \/ \E name \in {"NEW"} : handleAddUser(name)
    \/ \E data \in ImportFiles : handleImportData(data)

SpecExpenses == InitApp /\ [][NextExpenses]_vars

\* the form field by field: it is opened, filled, submitted and left, for a
\* new expense and for an edited one, while users are added and deleted
\* between its openings
NextForm ==
    \/ OpenForm
    \/ CloseForm
    \/ \E text \in Descriptions : setDescription(text)
    \/ \E text \in AmountTexts : setAmount(text)
    \/ \E userId \in IdsOf(appUsers) : setPaidBy(userId)
    \/ \E type \in {"equal", "custom"} : setSplitType(type)
    \/ \E userAmount \in SliderStops : handleSliderChange(appUsers[1].id, userAmount)
    \/ SubmitForm
    \/ \E i \in DOMAIN filteredExpenses : handleEdit(filteredExpenses[i])
    \/ handleCancelEdit
    \/ \E name \in {"NEW"} : handleAddUser(name)
    \/ \E userId \in IdsOf(appUsers) : handleDeleteUser(userId)

SpecForm == InitApp /\ [][NextForm]_vars

\* ------------------------------------------------------------ the claims
RECURSIVE SumOver(_, _)
SumOver(f, keys) ==
    IF keys = {} THEN 0
    ELSE LET k == CHOOSE x \in keys : TRUE
         IN  Plus(f[k], SumOver(f, keys \ {k}))

\* the sum of the values of a mapping (NaN if one of them is)
Total(f) == SumOver(f, DOMAIN f)

WithinEps(x) == ~IsNaN(x) /\ x <= EPS /\ x >= -EPS

RECURSIVE Moved(_, _, _)
\* what the settlements of `list` move to (role "to") or from (role "from") id
Moved(list, id, role) ==
    IF list = <<>> THEN 0
    ELSE (IF (IF role = "to" THEN Head(list).to ELSE Head(list).from) = id
          THEN Head(list).amount ELSE 0) + Moved(Tail(list), id, role)

\* the balances once every settlement of `list` is paid: a payment takes
\* `amount` off the credit of `to` and off the debt of `from`
AfterSettlements(mapping, list) ==
    [k \in DOMAIN mapping |->
        Plus(Minus(mapping[k], Moved(list, k, "to")), Moved(list, k, "from"))]

Computed == pc \in {"balances", "loop", "done"}

\* C1: for a balance mapping that sums to zero, paying every settlement that
\* calculateSettlements (or the loop of ExpenseList) returns leaves every
\* participant's balance within 0.01 of zero.
C1_SettlementsClearBalances ==
    (pc = "done" /\ planner \in {"lib", "list"} /\ Total(balances) = 0)
        => \A k \in DOMAIN balances :
              WithinEps(AfterSettlements(balances, settlements)[k])

\* an expense as C2 takes it: payer and participants in the roster, and the
\* custom shares summing to the amount
WellFormed(expense) ==
    /\ expense.paidBy \in users
    /\ expense.participants \subseteq users
    /\ expense.splitType = "custom" =>
          /\ DOMAIN expense.customSplits \subseteq users
          /\ Total(expense.customSplits) = expense.amount

\* C2: conservation: the balances calculateUserBalances returns for such
\* expenses sum to zero within 0.01.
C2_Conservation ==
    (Computed /\ \A i \in 1..Len(expenses) :
                    IsPending(expenses[i]) => WellFormed(expenses[i]))
        => WithinEps(Total(balances))

\* C3: every settlement a planner emits, for any balance mapping, has an
\* amount above 0.01.
C3_AmountsAboveEps ==
    \A i \in 1..Len(settlements) : settlements[i].amount > EPS

NotSettled(expense) == expense.status # "settled"

\* C4: settled exclusion: the balances are those of the same list with every
\* settled expense removed.
C4_SettledExcluded ==
    Computed => balances = calculateUserBalances(SelectSeq(expenses, NotSettled), users)

C4_Witness ==
    /\ pc = "balances"
    /\ \E i, j \in 1..Len(expenses) :
          /\ expenses[i].status = "settled"
          /\ expenses[j].status = "pending"
    /\ \E k \in users : balances[k] # 0

\* the balances before the i-th pending expense is folded in
BalancesBefore(i) ==
    FoldExpenses([id \in users |-> 0], SubSeq(pendingExpenses(expenses), 1, i - 1))

EqualAmong(expense) ==
    /\ expense.splitType = "equal"
    /\ Cardinality(expense.participants) >= 1

effectiveParticipants(expense) ==
    IF expense.participants = {} THEN users ELSE expense.participants

\* C6: the mapping calculateSplits returns has exactly the expense's
\* effective participants as keys; in custom mode a participant without an
\* entry has share 0 and an id with an entry that is no participant has no
\* share.  (Stated for the expenses that list participants; the empty list,
\* whose effective participants are the roster, is the case of C7.)
C6_SplitKeysAreParticipants ==
    Computed =>
        \A i \in 1..Len(expenses) :
            LET expense == expenses[i]
                splits == calculateSplits(expense)
            IN  expense.participants # {} =>
                  /\ DOMAIN splits = effectiveParticipants(expense)
                  /\ expense.splitType = "custom" =>
                        \A p \in DOMAIN splits :
                            splits[p] = IF p \in DOMAIN expense.customSplits
                                        THEN expense.customSplits[p] ELSE 0

\* the expense as the fallback reads it
WithRoster(expense) == [expense EXCEPT !.participants = effectiveParticipants(expense)]

\* C7: an expense with an empty participant list is shared by the whole
\* roster: every roster member is debited amount / rosterSize.
C7_EmptyParticipantsFallBack ==
    Computed =>
        balances = calculateUserBalances([i \in 1..Len(expenses) |-> WithRoster(expenses[i])],
                                         users)

\* the mapping with +x on creditor c, -x on debtor d and 0 on everyone else
OneOwesOne(c, d, x) ==
    /\ c # d
    /\ Gt(x, EPS)
    /\ balances[c] = x
    /\ balances[d] = -x
    /\ \A k \in DOMAIN balances \ {c, d} : balances[k] = 0

FormExpense(amount, payer) ==
    [amount |-> amount, paidBy |-> payer, participants |-> users,
     splitType |-> "equal", customSplits |-> EmptyMap, status |-> "pending"]

TwoParticipants ==
    /\ users = 1..2
    /\ expenses = <<FormExpense(Baht(1000), 1)>>

ThreeParticipants ==
    /\ users = 1..3
    /\ expenses = <<FormExpense(Baht(300), 1), FormExpense(Baht(150), 2)>>

\* C8: one creditor with +X and one debtor with -X, everyone else at 0: the
\* planner returns the single settlement debtor -> creditor of X.  A paying
\* 1000 for A and B: A = +500, B = -500, and B -> A of 500.  X paying 300 and
\* Y paying 150 for X, Y and Z: X = +150, Y = 0, Z = -150, and Z -> X of 150.
C8_SingleTransfer ==
    /\ Computed =>
          /\ TwoParticipants => balances = <<Baht(500), -Baht(500)>>
          /\ ThreeParticipants => balances = <<Baht(150), 0, -Baht(150)>>
    /\ pc = "done" =>
          /\ \A c, d \in DOMAIN balances :
                OneOwesOne(c, d, balances[c]) =>
                    settlements = <<[from |-> d, to |-> c, amount |-> balances[c]]>>
          /\ TwoParticipants =>
                settlements = <<[from |-> 2, to |-> 1, amount |-> Baht(500)]>>
          /\ ThreeParticipants =>
                settlements = <<[from |-> 3, to |-> 1, amount |-> Baht(150)]>>

C8_Witness ==
    /\ pc = "done"
    /\ planner = "lib"
    /\ ThreeParticipants
    /\ OneOwesOne(1, 3, Baht(150))
    /\ Len(settlements) = 1

\* C9: with no expense, or only settled ones, every roster member's balance
\* is exactly 0 and the planner returns no settlement.
C9_NothingPending ==
    (Computed /\ \A i \in 1..Len(expenses) : expenses[i].status = "settled")
        => /\ balances = [id \in users |-> 0]
           /\ settlements = <<>>

C9_Witness ==
    /\ pc = "done"
    /\ Len(expenses) >= 2
    /\ \A i \in 1..Len(expenses) : expenses[i].status = "settled"
    /\ \E i \in 1..Len(expenses) : expenses[i].paidBy \in expenses[i].participants

\* C10: idempotence: the repeated invocation returns the balances and the
\* settlements of the first; no step of the engine changes the expenses or
\* the roster, and no step of a planner changes the balance mapping it was
\* given.
C10_Idempotent ==
    [][/\ expenses' = expenses
       /\ users' = users
       /\ pc \in {"balances", "loop", "done"} => balances' = balances
       /\ (run' = 2 /\ pc' \in {"balances", "loop", "done"}) =>
              balances' = first'.balances
       /\ (run' = 2 /\ pc' = "done") => settlements' = first'.settlements]_vars

C10_Witness ==
    /\ pc = "done"
    /\ run = 2
    /\ Len(settlements) >= 2
    /\ settlements = first.settlements

\* the amount the iteration at the cursors settles
CurrentSettle ==
    LET creditor == creditors[creditorIndex + 1]
        debtor == debtors[debtorIndex + 1]
    IN  MathMin(creditor.amount, MathAbs(debtor.amount))

\* C11: the settlement loop terminates for every finite balance mapping:
\* every iteration advances at least one of the two cursors or ends the loop,
\* and no iteration is entered that settles nothing and so would leave both
\* cursors and both lists as they are.  (The cursors only rise and are
\* bounded by the lengths of the two lists, which are the variant.)  For
\* calculateSettlements, ExpenseList and SummaryDashboard.
C11_LoopTerminates ==
    /\ [][(pc = "loop" /\ InRange) =>
             \/ creditorIndex' > creditorIndex
             \/ debtorIndex' > debtorIndex
             \/ pc' = "done"]_vars
    /\ []((pc = "loop" /\ InRange) => CurrentSettle > 0)

C11_Witness ==
    /\ pc = "done"
    /\ planner \in {"lib", "dash"}
    /\ creditorIndex + debtorIndex >= 3
    /\ Len(creditors) >= 2
    /\ Len(debtors) >= 2

\* the participants outside the tolerance band
BandCreditors == {k \in DOMAIN balances : Gt(balances[k], EPS)}

BandDebtors == {k \in DOMAIN balances : Lt(balances[k], -EPS)}

\* C12: for every balance mapping, calculateSettlements (and the loop of
\* ExpenseList) emits at most #creditors + #debtors - 1 settlements, and none
\* when either list is empty, creditors and debtors being the participants
\* outside the 0.01 band.
C12_SettlementCount ==
    (Computed /\ planner \in {"lib", "list"}) =>
        Len(settlements) <=
            IF BandCreditors = {} \/ BandDebtors = {} THEN 0
            ELSE Cardinality(BandCreditors) + Cardinality(BandDebtors) - 1

C12_Witness ==
    /\ pc = "done"
    /\ planner = "lib"
    /\ Cardinality(BandCreditors) >= 2
    /\ Cardinality(BandDebtors) >= 2
    /\ Len(settlements) = 3

RECURSIVE NetOf(_, _)
\* the credits of id k less its shares, over the pending expenses of `list`
NetOf(k, list) ==
    IF list = <<>> THEN 0
    ELSE LET expense == Head(list)
             splits == calculateSplits(expense)
             credit == IF IsPending(expense) /\ expense.paidBy = k
                       THEN expense.amount ELSE 0
             share == IF IsPending(expense) /\ k \in DOMAIN splits
                      THEN splits[k] ELSE 0
         IN  credit - share + NetOf(k, Tail(list))

\* the ids the pending expenses name: payers and keys of the splits
NamedIds ==
    UNION {{expenses[i].paidBy} \cup DOMAIN calculateSplits(expenses[i]) :
             i \in {j \in 1..Len(expenses) : IsPending(expenses[j])}}

\* C13: with an id outside the roster as payer or split key,
\* calculateUserBalances returns a mapping with an entry for the unknown id
\* that holds its credits less its shares, and every roster member's balance
\* is the finite number of that member's own credits less shares.
C13_UnknownIdHoldsNet ==
    pc = "balances" =>
        /\ DOMAIN balances = users \cup NamedIds
        /\ \A k \in DOMAIN balances :
              ~IsNaN(balances[k]) /\ balances[k] = NetOf(k, expenses)

\* total credits and total debits of the finite balances
TotalCredits == SumOver([k \in DOMAIN balances |->
                            IF Gt(balances[k], 0) THEN balances[k] ELSE 0],
                        DOMAIN balances)

TotalDebits == SumOver([k \in DOMAIN balances |->
                           IF Lt(balances[k], 0) THEN -balances[k] ELSE 0],
                       DOMAIN balances)

\* C14: for a balance mapping whose total credits differ from its total
\* debits the planner still returns a settlement list; no creditor receives
\* in total more than their balance, no debtor pays in total more than their
\* debt, nobody with a balance of 0 or NaN pays or receives, and what is left
\* over stays on its owner: every balance after the settlements has the sign
\* it had, and the balances after them sum to the excess.
C14_Unbalanced ==
    (pc = "done" /\ TotalCredits # TotalDebits) =>
        LET after == AfterSettlements(balances, settlements)
        IN  /\ \A k \in DOMAIN balances :
                  LET received == Moved(settlements, k, "to")
                      paid == Moved(settlements, k, "from")
                  IN  /\ received <= (IF Gt(balances[k], 0) THEN balances[k] ELSE 0)
                      /\ paid <= (IF Lt(balances[k], 0) THEN -balances[k] ELSE 0)
                      /\ Gt(balances[k], 0) => after[k] >= 0
                      /\ Lt(balances[k], 0) => after[k] <= 0
            /\ SumOver([k \in DOMAIN after |-> IF IsNaN(after[k]) THEN 0 ELSE after[k]],
                       DOMAIN after) = TotalCredits - TotalDebits

C14_Witness ==
    /\ pc = "done"
    /\ planner = "lib"
    /\ TotalCredits > TotalDebits + EPS
    /\ Len(settlements) >= 2
    /\ \E k \in DOMAIN balances :
          AfterSettlements(balances, settlements)[k] > EPS

\* a custom split whose shares, all on roster members, sum to 0.005 less
\* than the amount a roster member paid
ShortByHalfCent(expense) ==
    /\ expense.splitType = "custom"
    /\ expense.paidBy \in users
    /\ DOMAIN expense.customSplits \subseteq users
    /\ Total(expense.customSplits) = expense.amount - 5 * Milli

\* every other pending expense moves as much off its sharers as it credits
Conserving(expense) ==
    /\ WellFormed(expense)
    /\ expense.splitType = "equal" => expense.participants # {}

\* the list has exactly one pending expense short by 0.005
OneShortExpense ==
    LET pending == pendingExpenses(expenses)
    IN  \E i \in 1..Len(pending) :
            /\ ShortByHalfCent(pending[i])
            /\ \A j \in 1..Len(pending) \ {i} : Conserving(pending[j])

C16_BandExcluded ==
    pc \in {"loop", "done"} =>
        /\ \A i \in 1..Len(creditors) : Gt(balances[creditors[i].id], EPS)
        /\ \A i \in 1..Len(debtors) : Lt(balances[debtors[i].id], -EPS)
        /\ \A i \in 1..Len(settlements) :
              /\ ~WithinEps(balances[settlements[i].from])
              /\ ~WithinEps(balances[settlements[i].to])

\* C17: in calculateSettlements and in the loop of ExpenseList, after each
\* matching step the creditor cursor advances whenever the creditor's
\* remaining balance is <= 0.01 and the debtor cursor whenever the debtor's
\* remaining debt is <= 0.01; so no iteration matches a pair one side of
\* which has 0.01 or less remaining.
C17_AdvancePastEps ==
    /\ [][(pc = "loop" /\ planner \in {"lib", "list"} /\ InRange /\ pc' = "loop") =>
             /\ creditors'[creditorIndex + 1].amount <= EPS =>
                   creditorIndex' = creditorIndex + 1
             /\ MathAbs(debtors'[debtorIndex + 1].amount) <= EPS =>
                   debtorIndex' = debtorIndex + 1]_vars
    /\ []((pc = "loop" /\ planner \in {"lib", "list"} /\ InRange) =>
             /\ creditors[creditorIndex + 1].amount > EPS
             /\ MathAbs(debtors[debtorIndex + 1].amount) > EPS)

\* C18: in calculateSettlements and in the loop of ExpenseList, an iteration
\* whose settle amount is <= 0.01 is the last one: the planner stops there,
\* and no later iteration runs or emits; and for a balance mapping that sums
\* to zero the stop leaves no creditor and debtor both with more than 0.01
\* unmatched.
C18_EarlyStop ==
    /\ [][(pc = "loop" /\ planner \in {"lib", "list"} /\ InRange
              /\ CurrentSettle <= EPS) =>
             (pc' = "done" \/ ~InRange')]_vars
    /\ []((pc = "done" /\ planner \in {"lib", "list"} /\ Total(balances) = 0) =>
             LET after == AfterSettlements(balances, settlements)
             IN  ~\E c, d \in DOMAIN balances :
                     Gt(after[c], EPS) /\ Lt(after[d], -EPS))

\* C19: the mapping calculateUserBalances returns has an entry for every
\* roster member, for any expense list; a member no pending expense names
\* has balance 0.
C19_EveryMemberHasEntry ==
    Computed =>
        /\ users \subseteq DOMAIN balances
        /\ \A k \in users \ NamedIds : balances[k] = 0

C19_Witness ==
    /\ pc = "balances"
    /\ Cardinality(users) = 3
    /\ \E k \in users \ NamedIds : balances[k] = 0
    /\ \E k \in users : balances[k] > 0
    /\ \E k \in users : balances[k] < 0

\* the orders a list of n expenses can be given in
Orders(n) == {f \in [1..n -> 1..n] : \A i, j \in 1..n : f[i] = f[j] => i = j}

Permuted(list, f) == [i \in 1..Len(list) |-> list[f[i]]]

\* C20: fold-order independence: calculateUserBalances returns the same
\* mapping for every permutation of the expense list (the shares of the
\* model are whole units, so no addition rounds).
C20_FoldOrder ==
    pc = "balances" =>
        \A f \in Orders(Len(expenses)) :
            calculateUserBalances(Permuted(expenses, f), users) = balances

C20_Witness ==
    /\ pc = "balances"
    /\ Len(expenses) = 2
    /\ IsPending(expenses[1]) /\ IsPending(expenses[2])
    /\ expenses[1].paidBy = expenses[2].paidBy
    /\ expenses[1].amount # expenses[2].amount
    /\ \E k \in users : balances[k] < 0

\* the largest credit and the largest debt of the mapping
LargestCredit ==
    CHOOSE x \in {balances[k] : k \in BandCreditors} :
        \A k \in BandCreditors : balances[k] <= x

LargestDebt ==
    CHOOSE x \in {-balances[k] : k \in BandDebtors} :
        \A k \in BandDebtors : -balances[k] <= x

\* C21: calculateSettlements emits in cursor order: the first settlement
\* pairs a creditor of the largest balance with a debtor of the largest debt
\* for the smaller of the two amounts; along the list the `to` creditors come
\* in non-increasing order of initial credit and the `from` debtors in
\* non-increasing order of initial debt, and an id that a later one has
\* followed does not appear again.
C21_CursorOrder ==
    (pc \in {"loop", "done"} /\ planner = "lib") =>
        /\ Len(settlements) >= 1 =>
              /\ balances[settlements[1].to] = LargestCredit
              /\ -balances[settlements[1].from] = LargestDebt
              /\ settlements[1].amount = MathMin(LargestCredit, LargestDebt)
        /\ \A i, j \in 1..Len(settlements) :
              i < j =>
                /\ balances[settlements[i].to] >= balances[settlements[j].to]
                /\ balances[settlements[i].from] <= balances[settlements[j].from]
        /\ \A i, j, k \in 1..Len(settlements) :
              (i < j /\ j < k) =>
                /\ settlements[i].to = settlements[k].to =>
                      settlements[j].to = settlements[i].to
                /\ settlements[i].from = settlements[k].from =>
                      settlements[j].from = settlements[i].from

C21_Witness ==
    /\ pc = "done"
    /\ planner = "lib"
    /\ Len(settlements) = 3
    /\ settlements[1].to = settlements[2].to
    /\ settlements[2].from = settlements[3].from
    /\ balances[settlements[3].to] < balances[settlements[1].to]

\* C26: every settlement calculateSettlements or the loop of ExpenseList
\* emits has from # to, and both ids are keys of the balance mapping with a
\* finite balance outside the 0.01 band; an id whose balance is NaN (the
\* entry of an unknown payer) is in no settlement.
C26_SettlementEnds ==
    (pc \in {"loop", "done"} /\ planner \in {"lib", "list"}) =>
        \A i \in 1..Len(settlements) :
            LET from == settlements[i].from
                to == settlements[i].to
            IN  /\ from # to
                /\ from \in DOMAIN balances /\ to \in DOMAIN balances
                /\ ~IsNaN(balances[from]) /\ ~IsNaN(balances[to])
                /\ balances[from] < -EPS
                /\ balances[to] > EPS

C26_Witness ==
    /\ pc = "done"
    /\ planner \in {"lib", "list"}
    /\ \E k \in DOMAIN balances : IsNaN(balances[k])
    /\ Len(settlements) >= 2

\* C27: for every balance mapping the loops written in ExpenseList and in
\* SummaryDashboard return the ordered settlement list that
\* calculateSettlements returns.
C27_SamePlan ==
    pc = "done" => settlements = calculateSettlements(balances)

\* C22: the roster has at least two members in every state the App reaches
\* by adding, editing and deleting users, importing, clearing and loading;
\* a delete on a roster of two and an import of a file with fewer than two
\* users leave the roster and the expenses as they were.
C22_RosterAtLeastTwo ==
    /\ [](Len(appUsers) >= 2)
    /\ [][/\ \A userId \in IdsOf(appUsers) :
                Len(appUsers) <= 2 /\ handleDeleteUser(userId)
                    => UNCHANGED <<appUsers, appExpenses>>
          /\ \A data \in ImportFiles :
                Len(data.users) < 2 /\ handleImportData(data)
                    => UNCHANGED <<appUsers, appExpenses>>]_vars

\* C23: the payer and the participants of every expense the App holds are
\* members of the current roster, also after a user who paid or shares an
\* expense was deleted.
C23_ExpensesNameRoster ==
    \A i \in DOMAIN appExpenses :
        /\ appExpenses[i].paidBy \in IdsOf(appUsers)
        /\ appExpenses[i].participants \subseteq IdsOf(appUsers)

\* the dates of a list of expenses, in its order
DateList(list) == [i \in DOMAIN list |-> list[i].date]

\* C24: every expense the App holds has the status pending or settled; an
\* expense just created by the form is pending and calculateUserBalances
\* counts it at once; updateExpense keeps the id and the date of the edited
\* expense and leaves it with a defined status.
C24_StatusDefined ==
    /\ [](\A i \in DOMAIN appExpenses : appExpenses[i].status \in Statuses)
    /\ [][\A f \in Fills :
            SubmitFilled(f) /\ ~Refused(f) =>
                IF editingExpense = <<>>
                THEN LET created == appExpenses'[Len(appExpenses')]
                     IN  /\ IsPending(created)
                         /\ calculateUserBalances(appExpenses', IdsOf(appUsers))
                                = ApplyExpense(
                                      calculateUserBalances(appExpenses, IdsOf(appUsers)),
                                      created)
                ELSE /\ IdList(appExpenses') = IdList(appExpenses)
                     /\ DateList(appExpenses') = DateList(appExpenses)
                     /\ \A i \in DOMAIN appExpenses' :
                            appExpenses[i].id = editingExpense[1].id
                                => appExpenses'[i].status \in Statuses]_vars

\* C25: handleSubmit hands an expense to onSubmit only if the description
\* is not blank, a payer is chosen, the amount parses to a positive number
\* and, for a custom split, the shares of the participants sum to exactly
\* the amount; otherwise nothing changes.  So the shares of every custom
\* expense that came through the form sum to its amount.
C25_CustomSharesSumToAmount ==
    /\ [][SubmitForm =>
            LET f == form[1]
                valid ==
                    /\ trim(f.description) # ""
                    /\ f.paidBy # 0
                    /\ ~IsNaN(parseFloat(f.amount))
                    /\ parseFloat(f.amount) > 0
                    /\ f.splitType = "custom" =>
                           splitTotal(f.customSplits, IdList(appUsers))
                               = parseFloat(f.amount)
            IN  IF valid
                THEN appExpenses' # appExpenses \/ editingExpense # <<>>
                ELSE UNCHANGED vars]_vars
    /\ [](\A i \in DOMAIN appExpenses :
              appExpenses[i].splitType = "custom" =>
                  SumOver(appExpenses[i].customSplits,
                          DOMAIN appExpenses[i].customSplits)
                      = appExpenses[i].amount)

\* C28: after every change of the expense list the save effect leaves the
\* store equal to the list in memory, so that loading the page again gives
\* exactly the current expenses; an only expense that is deleted while the
\* roster has two members does not come back.  (The lists are compared as
\* a reload reads them: an expense the form left without a status, C24, is
\* taken with the status the reload gives it.)
C28_ReloadRestores ==
    loadExpensesFromStorage(storedExpenses)
        = [i \in DOMAIN appExpenses |-> StatusOrPending(appExpenses[i])]

\* C29: after handleClearSettlements every expense inside the displayed
\* range is settled, every expense outside it has the status it had, no
\* update of the loop is lost, and the pending expenses of the range, from
\* which the suggestions are computed, are none.
C29_RangeSettled ==
    [][handleClearSettlements =>
          /\ Len(appExpenses') = Len(appExpenses)
          /\ \A i \in DOMAIN appExpenses :
                 IF isWithinInterval(appExpenses[i].date, dateRange)
                 THEN appExpenses'[i] = [appExpenses[i] EXCEPT !.status = "settled"]
                 ELSE appExpenses'[i] = appExpenses[i]
          /\ pendingExpenses(filterExpensesByDateRange(appExpenses', dateRange)) = <<>>
      ]_vars

\* the number of expenses of a list that a step changed or removed
Touched(before, after) ==
    IF Len(after) = Len(before)
    THEN Cardinality({i \in DOMAIN before : after[i] # before[i]})
    ELSE Len(before) - Len(after)

\* C30: the ids of the expenses the App holds are pairwise different,
\* whatever adds (the clock need not advance between two of them) and
\* imports led to them; hence a delete, a status update and an edit change
\* at most one expense.
C30_UniqueIds ==
    /\ [](\A i, j \in DOMAIN appExpenses : appExpenses[i].id = appExpenses[j].id => i = j)
    /\ [][(\/ \E i \in DOMAIN appExpenses : deleteExpense(appExpenses[i].id)
           \/ \E i \in DOMAIN appExpenses : toggleStatus(appExpenses[i])
           \/ editingExpense # <<>> /\ \E f \in Fills : SubmitFilled(f))
              => Touched(appExpenses, appExpenses') <= 1]_vars

====
